---- MODULE Spec2Model ----
(***************************************************************************)
(* StudentRegistry: the student store (students / student_history tables), *)
(* StudentModel's create / update / delete, the single-record routes and   *)
(* the bulk reconciliation loops (upload-pasted, upload-excel).            *)
(*                                                                         *)
(* Every pool.query is its own auto-committed statement (no BEGIN/COMMIT   *)
(* anywhere in db.js), so one model action is one SQL statement together   *)
(* with the synchronous JavaScript that runs up to the next await.         *)
(*                                                                         *)
(* JavaScript strings are sequences of one-character strings, so that      *)
(* substring search (ILIKE '%..%'), trim and quote stripping are computed, *)
(* not assumed.  Hebrew letters are written with ASCII letters.            *)
(***************************************************************************)
EXTENDS Integers, Sequences, FiniteSets, TLC

VARIABLES
    variant,    \* which db.js is deployed: "backend/db.js" or "unnamed/part_002"
    students,   \* table students: a set of rows
    history,    \* table student_history: rows in insertion order
    nextId,     \* the SERIAL sequence of students.id
    clock,      \* CURRENT_TIMESTAMP of the next statement that reads it
    call,       \* per process: the StudentModel call in progress
    rec,        \* the bulk-import request handler (upload-pasted / upload-excel)
    api,        \* the single-record request handler
    failures,   \* storage failures injected so far
    ops,        \* single-record requests issued so far
    ui,         \* the frontend's cycle / grade helpers: arguments and results
    req,        \* a request on its way through the middleware of its route
    boot,       \* startServer's call of initDatabase: the retry loop
    auth        \* the frontend's AuthProvider: its state and its checkAuth

vars ==
    <<variant, students, history, nextId, clock, call, rec, api, failures, ops, ui, req, boot,
      auth>>

\* the state of the backend and its database
Server == <<variant, students, history, nextId, clock, call, rec, api, failures, ops, boot>>

(***************************************************************************)
(* Bounds of the model.                                                    *)
(***************************************************************************)
MaxRows == 2        \* rows in an import that runs on its own
MaxRaceRows == 1    \* rows in an import that runs beside single-record requests
MaxOps == 1         \* single-record requests in one behaviour
MaxFailures == 1    \* statements that fail with a storage error
MaxUpdates == 2     \* PUT requests in a behaviour of updates only
MaxYears == 26      \* reference years after the first plausible cycle
MaxRequests == 2    \* POST / PUT requests in a behaviour of these only
MaxRetries == 5     \* the largest retries initDatabase is called with

(***************************************************************************)
(* JavaScript values.                                                      *)
(***************************************************************************)
NULL == <<"null">>              \* JS null / SQL NULL (no one-character string)
UNDEFINED == <<"undefined">>    \* JS undefined
EMPTY == <<>>                   \* the empty string ''

IsString(v) == v \notin {NULL, UNDEFINED}
Truthy(v) == v \notin {NULL, UNDEFINED, EMPTY}
OrEmpty(v) == IF Truthy(v) THEN v ELSE EMPTY      \* v || ''
PgParam(v) == IF v = UNDEFINED THEN NULL ELSE v   \* node-pg sends undefined as NULL

Digits == <<"0", "1", "2", "3", "4", "5", "6", "7", "8", "9">>

\* String(n) for a year 1000..9999
YearString(n) ==
    << Digits[(n \div 1000) + 1], Digits[((n \div 100) % 10) + 1],
       Digits[((n \div 10) % 10) + 1], Digits[(n % 10) + 1] >>

IsSpace(c) == c \in {" ", "\t"}

RECURSIVE TrimStart(_)
TrimStart(s) ==
    IF s # <<>> /\ IsSpace(Head(s)) THEN TrimStart(Tail(s)) ELSE s

RECURSIVE TrimEnd(_)
TrimEnd(s) ==
    IF s # <<>> /\ IsSpace(s[Len(s)]) THEN TrimEnd(SubSeq(s, 1, Len(s) - 1)) ELSE s

\* String.prototype.trim
Trim(s) == TrimEnd(TrimStart(s))

\* ILIKE folds case; the only letters the model's values hold are listed.
LowerCase(c) ==
    CASE c = "T" -> "t" [] c = "Y" -> "y" [] c = "A" -> "a" [] c = "B" -> "b"
      [] c = "G" -> "g" [] c = "D" -> "d" [] OTHER -> c

Fold(s) == [i \in 1..Len(s) |-> LowerCase(s[i])]

\* hay ILIKE '%' || needle || '%'   (needle without the wildcards % and _)
ILikeContains(hay, needle) ==
    \E i \in 0..(Len(hay) - Len(needle)) :
        SubSeq(Fold(hay), i + 1, i + Len(needle)) = Fold(needle)

(***************************************************************************)
(* Grades, the academic year.                                              *)
(***************************************************************************)
Tet == <<"T", "'">>
Yud == <<"Y", "'">>
YudAlef == <<"Y", "\"", "A">>
YudBet == <<"Y", "\"", "B">>
YudGimel == <<"Y", "\"", "G">>
YudDalet == <<"Y", "\"", "D">>

gradeOrder == <<Tet, Yud, YudAlef, YudBet, YudGimel, YudDalet>>

\* new Date(): the moment the import request is handled
now == [year |-> 2024, month |-> 10]

academicYear == IF now.month >= 9 THEN now.year ELSE now.year - 1

NotQuote(c) == c \notin {"\"", "'"}

\* g.replace(/"/g, '').replace(/'/g, '')
StripQuotes(g) == SelectSeq(g, NotQuote)

\* gradeOrder.indexOf(grade), 0-based, -1 when absent (strict equality)
IndexOfGrade(grade) ==
    IF \E i \in 1..Len(gradeOrder) : gradeOrder[i] = grade
    THEN (CHOOSE i \in 1..Len(gradeOrder) : gradeOrder[i] = grade) - 1
    ELSE -1

\* gradeOrder.findIndex(g => stripped(g) === gradeWithoutQuotes)
FindIndexStripped(gradeWithoutQuotes) ==
    LET hits == {i \in 1..Len(gradeOrder) : StripQuotes(gradeOrder[i]) = gradeWithoutQuotes}
    IN  IF hits = {} THEN -1
        ELSE (CHOOSE i \in hits : \A j \in hits : i <= j) - 1

(***************************************************************************)
(* Students and the sample data.                                           *)
(***************************************************************************)
Columns == {"idNumber", "lastName", "firstName", "grade", "stream", "gender",
            "track", "status", "cycle"}

Id123456789 == <<"1", "2", "3", "4", "5", "6", "7", "8", "9">>
Id987654321 == <<"9", "8", "7", "6", "5", "4", "3", "2", "1">>
Id456789123 == <<"4", "5", "6", "7", "8", "9", "1", "2", "3">>
Id789123456 == <<"7", "8", "9", "1", "2", "3", "4", "5", "6">>

Cohen == <<"k", "h", "n">>
Levi == <<"l", "v", "y">>
Israeli == <<"y", "s", "r", "a", "l", "y">>
David == <<"d", "v", "d">>
Sara == <<"s", "r", "h">>
Yossi == <<"y", "v", "s", "y">>
Michal == <<"m", "y", "k", "l">>
Male == <<"z", "k", "r">>
Female == <<"n", "q", "b", "h">>
ComputerScience == <<"m", "d", "a", "y", " ", "h", "m", "h", "s", "b">>
Mathematics == <<"m", "t", "m", "t", "y", "q", "h">>
Physics == <<"p", "y", "z", "y", "q", "h">>
Biology == <<"b", "y", "v", "l", "v", "g", "y", "h">>
Studying == <<"l", "v", "m", "d">>
Discontinued == <<"h", "p", "s", "y", "q">>
Completed == <<"s", "y", "y", "m">>

Student(id, idNumber, lastName, firstName, grade, stream, gender, track, status, cycle, createdAt) ==
    [id |-> id, idNumber |-> idNumber, lastName |-> lastName, firstName |-> firstName,
     grade |-> grade, stream |-> stream, gender |-> gender, track |-> track,
     status |-> status, cycle |-> cycle, createdAt |-> createdAt]

\* the rows initDatabase inserts into an empty students table, in one statement:
\* all four get the same created_at DEFAULT CURRENT_TIMESTAMP
SampleData ==
    { Student(1, Id123456789, Cohen, David, Tet, <<"1">>, Male, ComputerScience,
              Studying, YearString(2024), 1),
      Student(2, Id987654321, Levi, Sara, YudAlef, <<"3">>, Female, Mathematics,
              Studying, YearString(2025), 1),
      Student(3, Id456789123, Israeli, Yossi, YudBet, <<"5">>, Male, Physics,
              Discontinued, YearString(2024), 1),
      Student(4, Id789123456, David, Michal, YudDalet, <<"8">>, Female, Biology,
              Completed, YearString(2026), 1) }

\* a student_history row to insert; createdAt 0 stands for the column left out
\* of the INSERT (created_at TIMESTAMP DEFAULT CURRENT_TIMESTAMP)
Event(studentId, changeType, fieldName, oldValue, newValue) ==
    [studentId |-> studentId, changeType |-> changeType, fieldName |-> fieldName,
     oldValue |-> oldValue, newValue |-> newValue, createdAt |-> 0]

\* the same row with created_at given in the INSERT
EventAt(e, createdAt) == [e EXCEPT !.createdAt = createdAt]

\* the change_type initDatabase gives the sample rows' first history entry
SeedChangeType(v) == IF v = "backend/db.js" THEN "start_studies" ELSE "created"

\* one entry per sample row, with created_at = student.created_at
SampleHistory(v) ==
    [i \in 1..4 |-> EventAt(Event(i, SeedChangeType(v), NULL, NULL, NULL), 1)]

(***************************************************************************)
(* The SQL statements.  Each takes the tables as a record db and returns   *)
(* [err, db, rows]: err is "" or the SQLSTATE the statement fails with.    *)
(***************************************************************************)
Db == [students |-> students, history |-> history, nextId |-> nextId, clock |-> clock]

Ids(db) == {s.id : s \in db.students}

Values(data) == [c \in Columns |-> PgParam(data[c])]

\* grade VARCHAR(10) NOT NULL in backend/db.js; part_002 drops the NOT NULL
NotNullColumns == IF variant = "backend/db.js" THEN Columns ELSE Columns \ {"grade"}

ViolatesNotNull(v) == \E c \in NotNullColumns : v[c] = NULL

UniqueViolationNever(db, idNumber, selfId) == FALSE

\* id_number VARCHAR(20) UNIQUE: another row already holds this id_number
UniqueViolation(db, idNumber, selfId) ==
    \E s \in db.students : s.idNumber = idNumber /\ s.id # selfId

Row(id, v, createdAt) ==
    Student(id, v.idNumber, v.lastName, v.firstName, v.grade, v.stream, v.gender,
            v.track, v.status, v.cycle, createdAt)

\* INSERT INTO students (...) VALUES (...) RETURNING ...
\* (id SERIAL: the sequence has moved on even when the INSERT fails)
SqlInsertStudent(db, data) ==
    LET v == Values(data)
        failed == [db EXCEPT !.nextId = @ + 1]
    IN  IF ViolatesNotNull(v) THEN [err |-> "23502", db |-> failed, rows |-> {}]
        ELSE IF UniqueViolation(db, v.idNumber, 0)
             THEN [err |-> "23505", db |-> failed, rows |-> {}]
        ELSE [err |-> "",
              db |-> [db EXCEPT !.students = @ \cup {Row(db.nextId, v, db.clock)},
                                !.nextId = @ + 1,
                                !.clock = @ + 1],
              rows |-> {Row(db.nextId, v, db.clock)}]

\* UPDATE students SET ... WHERE id = $10 RETURNING ...
SqlUpdateStudent(db, id, data) ==
    LET v == Values(data)
        createdAt == (CHOOSE s \in db.students : s.id = id).createdAt
    IN  IF id \notin Ids(db) THEN [err |-> "", db |-> db, rows |-> {}]
        ELSE IF ViolatesNotNull(v) THEN [err |-> "23502", db |-> db, rows |-> {}]
        ELSE IF UniqueViolation(db, v.idNumber, id)
             THEN [err |-> "23505", db |-> db, rows |-> {}]
        ELSE [err |-> "",
              db |-> [db EXCEPT !.students =
                          {s \in @ : s.id # id} \cup {Row(id, v, createdAt)}],
              rows |-> {Row(id, v, createdAt)}]

KeepHistory(h, gone) == h

\* student_id ... REFERENCES students(id) ON DELETE CASCADE
Cascade(h, gone) == SelectSeq(h, LAMBDA e : e.studentId \notin gone)

\* DELETE FROM students WHERE id = $1 RETURNING id
SqlDeleteStudent(db, id) ==
    [err |-> "",
     db |-> [db EXCEPT !.students = {s \in @ : s.id # id},
                       !.history = Cascade(@, {id} \cap Ids(db))],
     rows |-> {s \in db.students : s.id = id}]

\* DELETE FROM students RETURNING id
SqlDeleteAll(db) ==
    [err |-> "",
     db |-> [db EXCEPT !.students = {}, !.history = Cascade(@, Ids(db))],
     rows |-> db.students]

SqlInsertHistoryKeepLatest(db, e) ==
    LET others == SelectSeq(db.history, LAMBDA o : ~(o.studentId = e.studentId
                                                     /\ o.changeType = e.changeType))
    IN  IF e.studentId \notin Ids(db)
        THEN [err |-> "23503", db |-> db, rows |-> {}]
        ELSE [err |-> "",
              db |-> [db EXCEPT !.history = Append(others, EventAt(e, db.clock)),
                                !.clock = @ + 1],
              rows |-> {}]

\* INSERT INTO student_history (student_id, change_type, ...) VALUES (...)
SqlInsertHistory(db, e) ==
    IF e.studentId \notin Ids(db)
    THEN [err |-> "23503", db |-> db, rows |-> {}]
    ELSE IF e.createdAt = 0
    THEN [err |-> "",
          db |-> [db EXCEPT !.history = Append(@, EventAt(e, db.clock)), !.clock = @ + 1],
          rows |-> {}]
    ELSE [err |-> "", db |-> [db EXCEPT !.history = Append(@, e)], rows |-> {}]

\* SELECT ... FROM students WHERE id = $1
getById(db, id) == {s \in db.students : s.id = id}

RECURSIVE OrderById(_)
OrderById(rows) ==
    IF rows = {} THEN <<>>
    ELSE LET first == CHOOSE s \in rows : \A t \in rows : s.id <= t.id
         IN  <<first>> \o OrderById(rows \ {first})

\* StudentModel.search with only idNumber set:
\*   WHERE 1=1 AND id_number ILIKE '%<idNumber>%' ORDER BY id ASC
search(db, searchParams) ==
    IF Truthy(searchParams.idNumber)
    THEN OrderById({s \in db.students : ILikeContains(s.idNumber, searchParams.idNumber)})
    ELSE OrderById(db.students)

\* StudentModel.getHistory(studentId), oldest first
getHistory(db, studentId) == SelectSeq(db.history, LAMBDA e : e.studentId = studentId)

(***************************************************************************)
(* StudentModel.create / update / delete: a call is a frame that advances  *)
(* one awaited statement at a time.  A step takes the tables and the frame *)
(* and returns both after the statement and the code up to the next await  *)
(* (JavaScript between two awaits runs without interruption).              *)
(***************************************************************************)
Procs == {"rec", "api"}

NoData == [c \in Columns |-> NULL]

NoCall ==
    [fn |-> "none", pc |-> "idle", id |-> 0, data |-> NoData, old |-> {},
     rows |-> {}, k |-> 0, err |-> "", startDate |-> 0]

Finished == {"returned", "thrown"}

CallCreate(studentData) ==
    [NoCall EXCEPT !.fn = "create", !.pc = "INSERT students", !.data = studentData]

CallUpdate(id, studentData) ==
    [NoCall EXCEPT !.fn = "update", !.pc = "getById", !.id = id, !.data = studentData]

CallDelete(id) ==
    [NoCall EXCEPT !.fn = "delete", !.pc = "getById", !.id = id]

CallLocation(id) ==
    [NoCall EXCEPT !.fn = "addLocationChange", !.pc = "getById", !.id = id]

Return(db, f, rows) == [db |-> db, frame |-> [f EXCEPT !.pc = "returned", !.rows = rows]]

Throw(db, f, err) == [db |-> db, frame |-> [f EXCEPT !.pc = "thrown", !.err = err]]

Goto(db, f, pc) == [db |-> db, frame |-> [f EXCEPT !.pc = pc]]

\* part_002: const gradeValue = studentData.grade && studentData.grade.trim() !== ''
\*                              ? studentData.grade : null
\* backend/db.js passes studentData.grade as it is
gradeValue(studentData) ==
    IF variant = "backend/db.js" THEN studentData.grade
    ELSE IF Truthy(studentData.grade) /\ Trim(studentData.grade) # EMPTY
         THEN studentData.grade
         ELSE NULL

\* create: INSERT INTO students ... RETURNING
CreateInsertStep(db, f) ==
    LET r == SqlInsertStudent(db, [f.data EXCEPT !.grade = gradeValue(f.data)])
    IN  IF r.err # "" THEN Throw(r.db, f, r.err)
        ELSE Goto(r.db, [f EXCEPT !.rows = r.rows, !.id = (CHOOSE s \in r.rows : TRUE).id],
                  IF variant = "backend/db.js" THEN "SELECT created_at"
                                               ELSE "INSERT created")

\* create (backend/db.js): SELECT created_at FROM students WHERE id = $1, then
\* studentWithDate.rows[0].created_at
CreateSelectDateStep(db, f) ==
    LET found == getById(db, f.id)
    IN  IF found = {} THEN Throw(db, f, "TypeError")
        ELSE Goto(db, [f EXCEPT !.startDate = (CHOOSE s \in found : TRUE).createdAt],
                  "INSERT start_studies")

\* create (backend/db.js): INSERT INTO student_history ... 'start_studies'
CreateInsertStartStep(db, f) ==
    LET r == SqlInsertHistory(db, EventAt(Event(f.id, "start_studies", NULL, NULL, NULL),
                                          f.startDate))
    IN  IF r.err # "" THEN Throw(db, f, r.err) ELSE Goto(r.db, f, "INSERT created")

\* create: INSERT INTO student_history ... 'created'; return student
CreateInsertCreatedStep(db, f) ==
    LET r == SqlInsertHistory(db, Event(f.id, "created", NULL, NULL, NULL))
    IN  IF r.err # "" THEN Throw(db, f, r.err) ELSE Return(r.db, f, f.rows)

fieldsToTrack ==
    << [key |-> "idNumber", name |-> "teudat zehut"],
       [key |-> "lastName", name |-> "shem mishpacha"],
       [key |-> "firstName", name |-> "shem prati"],
       [key |-> "grade", name |-> "kita"],
       [key |-> "stream", name |-> "makbila"],
       [key |-> "gender", name |-> "min"],
       [key |-> "track", name |-> "megama"],
       [key |-> "status", name |-> "status"],
       [key |-> "cycle", name |-> "machzor"] >>

NextChangedFirstOnly(oldStudent, studentData, k) ==
    IF k > 1 THEN 0
    ELSE LET changed == {j \in 1..Len(fieldsToTrack) :
                           oldStudent[fieldsToTrack[j].key] # studentData[fieldsToTrack[j].key]}
         IN  IF changed = {} THEN 0 ELSE CHOOSE j \in changed : \A m \in changed : j <= m

\* the first tracked field at or after position k with field.old !== field.new
\* (0 when there is none)
NextChanged(oldStudent, studentData, k) ==
    LET changed == {j \in k..Len(fieldsToTrack) :
                        oldStudent[fieldsToTrack[j].key] # studentData[fieldsToTrack[j].key]}
    IN  IF changed = {} THEN 0 ELSE CHOOSE j \in changed : \A m \in changed : j <= m

GetByIdStepThrows(db, f) ==
    LET found == getById(db, f.id)
    IN  IF found = {} THEN Throw(db, f, "TypeError")
        ELSE Goto(db, [f EXCEPT !.old = found],
                  CASE f.fn = "update" -> "UPDATE"
                    [] f.fn = "delete" -> "DELETE"
                    [] OTHER -> "INSERT location_change")

\* update / delete / addLocationChange:
\* const oldStudent = await this.getById(id); if (!oldStudent) return null
GetByIdStep(db, f) ==
    LET found == getById(db, f.id)
    IN  IF found = {} THEN Return(db, f, {})
        ELSE Goto(db, [f EXCEPT !.old = found],
                  CASE f.fn = "update" -> "UPDATE"
                    [] f.fn = "delete" -> "DELETE"
                    [] OTHER -> "INSERT location_change")

\* update: UPDATE students SET ... RETURNING; then the loop up to its first INSERT
UpdateRowStep(db, f) ==
    LET r == SqlUpdateStudent(db, f.id, [f.data EXCEPT !.grade = gradeValue(f.data)])
        oldStudent == CHOOSE s \in f.old : TRUE
        k == NextChanged(oldStudent, f.data, 1)
    IN  IF r.err # "" THEN Throw(db, f, r.err)
        ELSE IF k = 0 THEN Return(r.db, f, r.rows)
        ELSE Goto(r.db, [f EXCEPT !.rows = r.rows, !.k = k], "INSERT field_update")

\* update: INSERT INTO student_history ... 'field_update' for field k; then the loop
\* up to the next INSERT, or return updatedStudent
UpdateHistoryStep(db, f) ==
    LET oldStudent == CHOOSE s \in f.old : TRUE
        field == fieldsToTrack[f.k]
        r == SqlInsertHistory(db, Event(f.id, "field_update", field.name,
                                        PgParam(oldStudent[field.key]),
                                        PgParam(f.data[field.key])))
        k == NextChanged(oldStudent, f.data, f.k + 1)
    IN  IF r.err # "" THEN Throw(db, f, r.err)
        ELSE IF k = 0 THEN Return(r.db, f, f.rows)
        ELSE Goto(r.db, [f EXCEPT !.k = k], "INSERT field_update")

\* delete: DELETE FROM students WHERE id = $1 RETURNING id; if (result.rows[0]) ...
DeleteRowStep(db, f) ==
    LET r == SqlDeleteStudent(db, f.id)
    IN  IF r.rows # {} THEN Goto(r.db, [f EXCEPT !.rows = r.rows], "INSERT deleted")
        ELSE Return(r.db, f, {})

\* delete: INSERT INTO student_history ... 'deleted'; return result.rows[0]
DeleteHistoryStep(db, f) ==
    LET r == SqlInsertHistory(db, Event(f.id, "deleted", NULL, NULL, NULL))
    IN  IF r.err # "" THEN Throw(db, f, r.err) ELSE Return(r.db, f, f.rows)

\* addLocationChange: INSERT INTO student_history ... 'location_change';
\* return { success: true }
LocationInsertStep(db, f) ==
    LET r == SqlInsertHistory(db, Event(f.id, "location_change", NULL, NULL, NULL))
    IN  IF r.err # "" THEN Throw(db, f, r.err) ELSE Return(r.db, f, f.old)

\* the statement a frame is about to issue
ModelStep(db, f) ==
    CASE f.pc = "INSERT students" -> CreateInsertStep(db, f)
      [] f.pc = "SELECT created_at" -> CreateSelectDateStep(db, f)
      [] f.pc = "INSERT start_studies" -> CreateInsertStartStep(db, f)
      [] f.pc = "INSERT created" -> CreateInsertCreatedStep(db, f)
      [] f.pc = "getById" -> GetByIdStep(db, f)
      [] f.pc = "UPDATE" -> UpdateRowStep(db, f)
      [] f.pc = "INSERT field_update" -> UpdateHistoryStep(db, f)
      [] f.pc = "DELETE" -> DeleteRowStep(db, f)
      [] f.pc = "INSERT deleted" -> DeleteHistoryStep(db, f)
      [] f.pc = "INSERT location_change" -> LocationInsertStep(db, f)
      [] OTHER -> [db |-> db, frame |-> f]

\* a whole call with no other statement in between and no storage failure
RECURSIVE RunCall(_, _)
RunCall(db, f) ==
    IF f.pc \in Finished \/ f.fn = "none" THEN [db |-> db, frame |-> f]
    ELSE LET r == ModelStep(db, f) IN RunCall(r.db, r.frame)

(***************************************************************************)
(* Bulk reconciliation: POST /upload-pasted and POST /upload-excel.        *)
(***************************************************************************)
RowKeys == {"idNumber", "lastName", "firstName", "grade", "stream", "gender", "track"}

\* one element of req.body.students (pasted) or one sheet row (excel)
RawRow(idNumber, lastName, firstName, grade, stream, gender, track) ==
    [kind |-> "object", idNumber |-> idNumber, lastName |-> lastName,
     firstName |-> firstName, grade |-> grade, stream |-> stream, gender |-> gender,
     track |-> track]

\* a JSON null among req.body.students
NullRow ==
    [kind |-> "null", idNumber |-> UNDEFINED, lastName |-> UNDEFINED,
     firstName |-> UNDEFINED, grade |-> UNDEFINED, stream |-> UNDEFINED,
     gender |-> UNDEFINED, track |-> UNDEFINED]

NoRowData == [c \in RowKeys |-> UNDEFINED]

gradeMap(rawGrade) ==
    CASE rawGrade = <<"T">> -> Tet
      [] rawGrade = <<"Y">> -> Yud
      [] rawGrade = <<"Y", "A">> -> YudAlef
      [] rawGrade = <<"Y", "B">> -> YudBet
      [] rawGrade = <<"Y", "G">> -> YudGimel
      [] rawGrade = <<"Y", "D">> -> YudDalet
      [] OTHER -> UNDEFINED

genderMap(rawGender) ==
    CASE rawGender = <<"z">> -> Male
      [] rawGender = <<"n">> -> Female
      [] rawGender = Male -> Male
      [] rawGender = Female -> Female
      [] OTHER -> UNDEFINED

\* String(row[headerMap.x] || '').trim()
Cell(v) == Trim(OrEmpty(v))

\* upload-excel builds studentData from the sheet row; upload-pasted takes the
\* element of req.body.students as it is
StudentData(mode, row) ==
    IF mode = "excel"
    THEN [idNumber |-> Cell(row.idNumber), lastName |-> Cell(row.lastName),
          firstName |-> Cell(row.firstName),
          grade |-> IF Truthy(gradeMap(Cell(row.grade)))
                    THEN gradeMap(Cell(row.grade)) ELSE Cell(row.grade),
          stream |-> Cell(row.stream),
          gender |-> IF Truthy(genderMap(Cell(row.gender)))
                     THEN genderMap(Cell(row.gender)) ELSE Cell(row.gender),
          track |-> Cell(row.track)]
    ELSE [c \in RowKeys |-> row[c]]

EmptyRowKeyOnly(studentData) == ~Truthy(studentData.idNumber)

\* if (!studentData.idNumber || !studentData.lastName || !studentData.firstName) continue
EmptyRow(studentData) ==
    ~Truthy(studentData.idNumber) \/ ~Truthy(studentData.lastName)
        \/ ~Truthy(studentData.firstName)

GradeIndexExact(grade) == IndexOfGrade(grade)

\* gradeOrder.indexOf(grade), then the quote-less findIndex; studentData.grade.replace
\* throws a TypeError when grade is not a string
GradeIndex(grade) ==
    IF IndexOfGrade(grade) # -1 THEN IndexOfGrade(grade)
    ELSE FindIndexStripped(StripQuotes(grade))

GradeThrows(grade) == IndexOfGrade(grade) = -1 /\ ~IsString(grade)

\* calculatedCycle >= 2000 && calculatedCycle <= academicYear + 1
Plausible(calculatedCycle) ==
    calculatedCycle >= 2000 /\ calculatedCycle <= academicYear + 1

fieldsToCheck == <<"lastName", "firstName", "grade", "stream", "gender", "track", "cycle">>

KeepStatusStudying(existingStudent) == Studying

\* status: existingStudent.status, // Keep existing status
KeepStatus(existingStudent) == existingStudent.status

\* the row's code between the search and the next await
Classify(existingStudents, studentData) ==
    LET gradeIndex == GradeIndex(studentData.grade)
        derived == gradeIndex # -1 /\ Plausible(academicYear - gradeIndex)
    IN  IF GradeThrows(studentData.grade)
        THEN [kind |-> "throw", id |-> 0, data |-> NoData]
        ELSE IF Len(existingStudents) > 0
        THEN LET existingStudent == existingStudents[1]
                 cycle == IF derived THEN YearString(academicYear - gradeIndex)
                          ELSE existingStudent.cycle
                 hasChanges ==
                     \E j \in 1..Len(fieldsToCheck) :
                         LET key == fieldsToCheck[j]
                             oldValue == OrEmpty(existingStudent[key])
                             newValue == IF key = "cycle" THEN cycle
                                         ELSE OrEmpty(studentData[key])
                         IN  oldValue # newValue
                 updateData ==
                     [idNumber |-> studentData.idNumber, lastName |-> studentData.lastName,
                      firstName |-> studentData.firstName, grade |-> studentData.grade,
                      stream |-> studentData.stream, gender |-> studentData.gender,
                      track |-> studentData.track, status |-> KeepStatus(existingStudent),
                      cycle |-> cycle]
             IN  IF hasChanges
                 THEN [kind |-> "update", id |-> existingStudent.id, data |-> updateData]
                 ELSE [kind |-> "skip", id |-> existingStudent.id, data |-> NoData]
        ELSE LET cycle == IF derived THEN academicYear - gradeIndex ELSE academicYear
                 newStudentData ==
                     [idNumber |-> studentData.idNumber, lastName |-> studentData.lastName,
                      firstName |-> studentData.firstName, grade |-> studentData.grade,
                      stream |-> studentData.stream, gender |-> studentData.gender,
                      track |-> studentData.track, status |-> Studying,
                      cycle |-> YearString(cycle)]
             IN  [kind |-> "create", id |-> 0, data |-> newStudentData]

NoResults == [processed |-> 0, updated |-> 0, created |-> 0, skipped |-> 0, errors |-> <<>>]

\* results.errors.push(...): the pasted message carries the row's idNumber, the excel
\* message the row number
PushError(results, i, studentData, message) ==
    [results EXCEPT !.errors =
        Append(@, [row |-> i, idNumber |-> studentData.idNumber, message |-> message])]

Count(results, counter) == [results EXCEPT ![counter] = @ + 1]

(***************************************************************************)
(* Inputs.                                                                 *)
(***************************************************************************)
Id12345 == <<"1", "2", "3", "4", "5">>      \* part of the sample id_number 123456789
Id77 == <<"7", "7">>                        \* an id_number no sample row holds
Id88 == <<"8", "8">>                        \* another one

\* the rows an import may carry: well-formed rows, a row whose grade is missing,
\* and a null element
Rows ==
    { RawRow(idNumber, Cohen, David, Tet, <<"1">>, Male, track) :
        idNumber \in {Id123456789, Id12345, Id77},
        track \in {ComputerScience, Biology} }
    \cup {RawRow(Id77, Cohen, David, UNDEFINED, <<"1">>, Male, ComputerScience), NullRow}

\* the rows of an import looked at for what it stores: sample student 3
\* (discontinued) with another track, sample student 1 as stored, sample student 2
\* and a new student with a grade that is no grade, a new student with a grade
\* written without its quote mark, and rows without idNumber, lastName, firstName
GradeRows ==
    { RawRow(Id456789123, Israeli, Yossi, YudBet, <<"5">>, Male, Biology),
      RawRow(Id123456789, Cohen, David, Tet, <<"1">>, Male, ComputerScience),
      RawRow(Id987654321, Levi, Sara, <<"x">>, <<"3">>, Female, Mathematics),
      RawRow(Id77, Cohen, Sara, <<"x">>, <<"1">>, Female, Physics),
      RawRow(Id88, Levi, David, <<"Y", "A">>, <<"1">>, Male, Physics),
      RawRow(EMPTY, Cohen, David, Tet, <<"1">>, Male, Biology),
      RawRow(Id77, UNDEFINED, David, Tet, <<"1">>, Male, Biology),
      RawRow(Id77, Cohen, EMPTY, Tet, <<"1">>, Male, Biology) }

\* the rows of an import that runs beside single-record requests
RaceRows ==
    { RawRow(Id77, Cohen, David, Tet, <<"1">>, Male, ComputerScience),
      RawRow(Id123456789, Cohen, David, Tet, <<"1">>, Male, Biology) }

\* req.body of POST / and PUT /:id
Bodies ==
    { [idNumber |-> Id77, lastName |-> Cohen, firstName |-> David, grade |-> Tet,
       stream |-> <<"1">>, gender |-> Male, track |-> ComputerScience,
       status |-> Studying, cycle |-> YearString(2024)],
      [idNumber |-> Id123456789, lastName |-> Cohen, firstName |-> David, grade |-> Tet,
       stream |-> <<"1">>, gender |-> Male, track |-> Physics,
       status |-> Studying, cycle |-> YearString(2024)] }

\* req.params.id: a sample row and the first row inserted later
RequestIds == {1, 5}

Modes == {"pasted", "excel"}

SeqsUpTo(S, n) == UNION {[1..m -> S] : m \in 0..n}

(***************************************************************************)
(* The processes: "rec" handles one import request, "api" the              *)
(* single-record requests.  Both run on one event loop against one pool,   *)
(* so they interleave at every awaited statement.                          *)
(***************************************************************************)
RecIdle ==
    [pc |-> "idle", mode |-> "pasted", rows |-> <<>>, i |-> 1, results |-> NoResults,
     studentData |-> NoRowData, existingStudent |-> {}]

ApiIdle == [pc |-> "idle", method |-> "", status |-> 0]

\* the tables once initDatabase has run on an empty database
InitialDb(v) ==
    [students |-> SampleData, history |-> SampleHistory(v), nextId |-> 5, clock |-> 2]

(***************************************************************************)
(* Authentication (server.js, USE_AUTH): a request carries a bearer token  *)
(* or none and passes the middleware its route was registered with.        *)
(***************************************************************************)
Issuer == <<"h", "/", "o", "/", "r">>       \* AUTHENTIK_ISSUER, written short
ClientId == <<"c", "1">>                      \* AUTHENTIK_CLIENT_ID
OtherId == <<"c", "2">>

Superusers == <<"s", "u", "p", "e", "r", "u", "s", "e", "r", "s">>
Admins == <<"A", "d", "m", "i", "n", "s">>
Makas == <<"m", "a", "k", "a", "s">>

\* s.replace(/\/$/, '')
StripSlash(s) == IF s # <<>> /\ s[Len(s)] = "/" THEN SubSeq(s, 1, Len(s) - 1) ELSE s

issuerBase == StripSlash(Issuer)

NoToken == [signed |-> FALSE, iss |-> UNDEFINED, aud |-> <<>>, is_superuser |-> FALSE,
            groups |-> <<>>, bearer |-> FALSE]

\* the Authorization headers a request may carry: none, or a JWT whose signature
\* verifies or not, with its iss, aud (one value or a list), is_superuser and groups
\* (no groups claim is the empty list: decoded.groups || decoded.ak_groups || [])
Tokens ==
    {NoToken} \cup
    {[signed |-> signed, iss |-> iss, aud |-> aud, is_superuser |-> su, groups |-> groups,
      bearer |-> TRUE] :
        signed \in BOOLEAN,
        iss \in {Issuer, Issuer \o <<"/">>, <<"x">>},
        aud \in {<<ClientId>>, <<OtherId, ClientId>>, <<OtherId>>},
        su \in BOOLEAN,
        groups \in {<<>>, <<Makas>>, <<Superusers>>, <<Makas, Admins>>}}

AuthentikPaths ==
    {"GET /api/authentik/users", "GET /api/authentik/users/:userId",
     "POST /api/authentik/users/:userId/add-makas-group",
     "PATCH /api/authentik/users/:userId/attributes"}

Paths == AuthentikPaths \cup {"GET /api/auth/user", "GET /api/classes"}

\* the middleware each route is registered with, in order, before its handler
Chain(path) ==
    CASE path \in AuthentikPaths -> <<"requireSuperuser", "handler">>
      [] path = "GET /api/auth/user" -> <<"verifyToken", "handler">>
      [] OTHER -> <<"verifyToken", "requireSuperuser", "handler">>

NoUser == [set |-> FALSE, isSuperuser |-> FALSE]

NoRequest ==
    [pc |-> "idle", path |-> "", token |-> NoToken, chain |-> <<>>, user |-> NoUser,
     status |-> 0, serviceAccount |-> FALSE]

\* decoded.is_superuser || groups.includes('superusers')
\*   || groupsLower.some(g => g.includes('superuser'))
\*   || groupsLower.some(g => g.includes('admin'))
isSuperuser(decoded) ==
    LET groups == decoded.groups
    IN  \/ decoded.is_superuser
        \/ \E j \in 1..Len(groups) : groups[j] = Superusers
        \/ \E j \in 1..Len(groups) :
               ILikeContains(groups[j], <<"s", "u", "p", "e", "r", "u", "s", "e", "r">>)
        \/ \E j \in 1..Len(groups) : ILikeContains(groups[j], <<"a", "d", "m", "i", "n">>)

\* next(): on to the rest of the chain
NextMiddleware(r) == [r EXCEPT !.pc = Head(r.chain), !.chain = Tail(r.chain)]

\* res.status(status).json(...): the request is answered, the chain ends
Answer(r, status) == [r EXCEPT !.pc = "done", !.chain = <<>>, !.status = status]

(***************************************************************************)
(* initDatabase(retries = 5, delay = 2000): the retry loop around the      *)
(* statements that create and seed the tables.                             *)
(***************************************************************************)
DefaultRetries == 5

\* what pool.query rejects with while the database is not ready
BootErrors == {"ECONNREFUSED", "57P03"}

\* the loop at its first attempt: i = 0, no error caught, no delay waited
BootStart(retries) ==
    [pc |-> "SELECT NOW()", retries |-> retries, i |-> 0, errors |-> <<>>, waits |-> 0,
     completed |-> FALSE, thrown |-> ""]

\* the server is up: startServer's initDatabase() returned from its first attempt
BootDone == [BootStart(DefaultRetries) EXCEPT !.pc = "returned", !.completed = TRUE]

BootCatchReturns(b, error) ==
    IF b.i = b.retries - 1
    THEN [b EXCEPT !.pc = "returned", !.errors = Append(@, error)]
    ELSE [b EXCEPT !.pc = "wait", !.errors = Append(@, error)]

\* catch (error) { if (i === retries - 1) throw error; await wait(delay) }
BootCatch(b, error) ==
    IF b.i = b.retries - 1
    THEN [b EXCEPT !.pc = "thrown", !.errors = Append(@, error), !.thrown = error]
    ELSE [b EXCEPT !.pc = "wait", !.errors = Append(@, error)]

(***************************************************************************)
(* The frontend's AuthProvider (AuthContext.jsx) with getAuthConfig and    *)
(* getUser (auth.js).  A promise that never settles is an action that is   *)
(* never taken; a timer is an action that is taken once it is armed.       *)
(***************************************************************************)
\* useState(null), useState(true), useState(false), before the effect has run
NoAuth ==
    [pc |-> "idle", mounted |-> FALSE, loading |-> TRUE, authEnabled |-> FALSE,
     user |-> "null", fetch |-> "idle", body |-> "", overallTimeout |-> "idle",
     config |-> "pending", winner |-> "", manager |-> "idle", lateSet |-> FALSE]

\* setUser / setLoading / setAuthEnabled; lateSet records a call after the cleanup
SetState(a, field, value) ==
    [a EXCEPT ![field] = value, !.lateSet = @ \/ ~a.mounted]

FinallyUnguarded(a) == [SetState(a, "loading", FALSE) EXCEPT !.pc = "returned"]

\* finally { if (mounted) setLoading(false) }
Finally(a) ==
    IF a.mounted THEN [SetState(a, "loading", FALSE) EXCEPT !.pc = "returned"]
    ELSE [a EXCEPT !.pc = "returned"]

\* getUser(): manager.getUser() raced with its own timer
CallGetUser(a, pc) == [a EXCEPT !.pc = pc, !.manager = "pending"]

\* checkAuth from the end of await Promise.race([configPromise, overallTimeout]),
\* settled by winner with config, to its next await or its end
AfterConfig(a, config, winner) ==
    LET b == [a EXCEPT !.config = config, !.winner = winner]
    IN  IF ~b.mounted THEN Finally(b)                           \* if (!mounted) return
        ELSE IF config = "null"                                  \* config.enabled throws
        THEN Finally(IF b.mounted THEN SetState(b, "authEnabled", FALSE) ELSE b)
        ELSE IF config = "enabled"
        THEN CallGetUser(SetState(b, "authEnabled", TRUE), "authenticated")
        ELSE Finally(SetState(b, "authEnabled", FALSE))

\* getAuthConfig() has returned config: checkAuth goes on if it still awaits the race
ConfigSettles(a, config) ==
    LET b == [a EXCEPT !.fetch = "settled"]
    IN  IF b.pc = "config" THEN AfterConfig(b, config, "config") ELSE b

\* from the end of await Promise.race([authCheckPromise, timeoutPromise])
AfterAuthenticated(a, authenticated) ==
    IF authenticated /\ a.mounted THEN CallGetUser(a, "getUser")
    ELSE Finally([a EXCEPT !.manager = "idle"])

\* getUser() has returned user ("user", "expired" or "null")
AfterGetUser(a, user) ==
    LET b == [a EXCEPT !.manager = "idle"]
    IN  IF b.pc = "authenticated"         \* isAuthenticated: !!user && !user.expired
        THEN AfterAuthenticated(b, user = "user")
        ELSE Finally(IF b.mounted /\ user # "null" THEN SetState(b, "user", user) ELSE b)

NoUi ==
    [grade |-> NULL, cycle |-> NULL, currentYear |-> 0, cycleStatus |-> "",
     gradeFromCycle |-> UNDEFINED, cycleFromGrade |-> UNDEFINED, roundTrip |-> UNDEFINED]

Init ==
    /\ ui = NoUi
    /\ req = NoRequest
    /\ auth = NoAuth
    /\ boot = BootDone
    /\ variant \in {"backend/db.js", "unnamed/part_002"}
    /\ students = SampleData
    /\ history = SampleHistory(variant)
    /\ nextId = 5
    /\ clock = 2
    /\ call = [p \in Procs |-> NoCall]
    /\ rec = RecIdle
    /\ api = ApiIdle
    /\ failures = 0
    /\ ops = 0

SetDb(db) ==
    /\ students' = db.students
    /\ history' = db.history
    /\ nextId' = db.nextId
    /\ clock' = db.clock

\* the loop from its head to the row's first await: null rows, the empty-row
\* filter, results.processed++ and the search being issued; past the last row,
\* res.json({ success: true, results })
RECURSIVE LoopHead(_)
LoopHead(r) ==
    IF r.i > Len(r.rows)
    THEN [r EXCEPT !.pc = "done", !.studentData = NoRowData, !.existingStudent = {}]
    ELSE LET row == r.rows[r.i]
             studentData == StudentData(r.mode, row)
         IN  IF row.kind = "null"
             THEN IF r.mode = "excel"
                  THEN LoopHead([r EXCEPT !.i = @ + 1])   \* if (!row ...) continue
                  ELSE [r EXCEPT !.pc = "aborted",        \* the row's catch throws too:
                                 !.studentData = NoRowData, \* the outer catch answers 500
                                 !.existingStudent = {}]
             ELSE IF EmptyRow(studentData)
             THEN LoopHead([r EXCEPT !.i = @ + 1])
             ELSE [r EXCEPT !.pc = "search", !.studentData = studentData,
                            !.existingStudent = {},
                            !.results = Count(@, "processed")]

\* the row is over: on to the next one
NextRow(r) == LoopHead([r EXCEPT !.i = @ + 1])

CatchSwallow(r, message) == NextRow(r)

\* the row's catch
Catch(r, message) ==
    NextRow([r EXCEPT !.results = PushError(@, r.i, r.studentData, message)])

RowReturnCountFirst(r, f) ==
    LET counted == [r EXCEPT !.results =
                       Count(@, IF f.fn = "update" THEN "updated" ELSE "created")]
    IN  IF f.pc = "thrown" THEN Catch(counted, f.err) ELSE NextRow(counted)

\* StudentModel.update / create has come back to the row: results.updated++ /
\* results.created++, or the row's catch
RowReturn(r, f) ==
    IF f.pc = "thrown" THEN Catch(r, f.err)
    ELSE NextRow([r EXCEPT !.results =
                     Count(@, IF f.fn = "update" THEN "updated" ELSE "created")])

StatusNoConflict(method, f) ==
    IF f.pc = "thrown" THEN 500
    ELSE IF method = "POST" THEN 201
    ELSE IF f.rows = {} THEN 404
    ELSE IF method \in {"PUT", "POST /:id/location"} THEN 200 ELSE 204

\* the single-record route's reply once StudentModel has come back
Status(method, f) ==
    IF f.pc = "thrown"
    THEN IF f.err = "23505" /\ method \in {"POST", "PUT"} THEN 409 ELSE 500
    ELSE IF method = "POST" THEN 201
    ELSE IF f.rows = {} THEN 404
    ELSE IF method \in {"PUT", "POST /:id/location"} THEN 200 ELSE 204

\* process p's call has taken a step to frame f; a finished call goes back to
\* its caller in the same turn of the event loop
Resume(p, f) ==
    /\ call' = [call EXCEPT ![p] = IF p = "rec" /\ f.pc \in Finished THEN NoCall ELSE f]
    /\ rec' = IF p = "rec" /\ f.pc \in Finished THEN RowReturn(rec, f) ELSE rec
    /\ api' = IF p = "api" /\ f.pc \in Finished
              THEN [api EXCEPT !.pc = "idle", !.status = Status(api.method, f)]
              ELSE api

Pending(p) == call[p].fn # "none" /\ call[p].pc \notin Finished

\* process p's pending statement runs
Statement(p) ==
    /\ Pending(p)
    /\ LET r == ModelStep(Db, call[p])
       IN  /\ SetDb(r.db)
           /\ Resume(p, r.frame)
    /\ UNCHANGED <<variant, ui, req, boot, auth, failures, ops>>

CreateInsert(p) ==
    /\ call[p].pc = "INSERT students"
    /\ Statement(p)

CreateSelectDate(p) ==
    /\ call[p].pc = "SELECT created_at"
    /\ Statement(p)

CreateInsertStart(p) ==
    /\ call[p].pc = "INSERT start_studies"
    /\ Statement(p)

CreateInsertCreated(p) ==
    /\ call[p].pc = "INSERT created"
    /\ Statement(p)

GetById(p) ==
    /\ call[p].pc = "getById"
    /\ Statement(p)

UpdateRow(p) ==
    /\ call[p].pc = "UPDATE"
    /\ Statement(p)

UpdateHistory(p) ==
    /\ call[p].pc = "INSERT field_update"
    /\ Statement(p)

DeleteRow(p) ==
    /\ call[p].pc = "DELETE"
    /\ Statement(p)

DeleteHistory(p) ==
    /\ call[p].pc = "INSERT deleted"
    /\ Statement(p)

LocationInsert(p) ==
    /\ call[p].pc = "INSERT location_change"
    /\ Statement(p)

\* process p's pending statement fails in the storage layer (connection lost):
\* pool.query rejects, the method's catch logs and rethrows
QueryFails(p) ==
    /\ failures < MaxFailures
    /\ Pending(p)
    /\ Resume(p, [call[p] EXCEPT !.pc = "thrown", !.err = "08006"])
    /\ failures' = failures + 1
    /\ UNCHANGED <<variant, ui, req, boot, auth, students, history, nextId, clock, ops>>

\* POST /upload-pasted, POST /upload-excel: the request arrives
\* (upload-pasted answers 400 to an empty students array)
StartReconcile(RowSet, ModeSet, maxRows) ==
    /\ rec.pc = "idle"
    /\ \E mode \in ModeSet, rows \in SeqsUpTo(RowSet, maxRows) :
          rec' = IF mode = "pasted" /\ Len(rows) = 0
                 THEN [RecIdle EXCEPT !.mode = mode, !.pc = "rejected"]
                 ELSE LoopHead([RecIdle EXCEPT !.mode = mode, !.rows = rows])
    /\ UNCHANGED <<variant, ui, req, boot, auth, students, history, nextId, clock, call, api, failures, ops>>

\* await StudentModel.search({ idNumber }) has come back: the row's code up to its
\* next await, which is the first statement of update or create (frame), unless
\* the row is skipped or throws
AfterSearch(db, r) ==
    LET existingStudents == search(db, [idNumber |-> r.studentData.idNumber])
        c == Classify(existingStudents, r.studentData)
        found == IF Len(existingStudents) > 0 THEN {existingStudents[1]} ELSE {}
        matched == [r EXCEPT !.existingStudent = found]
    IN  CASE c.kind = "throw" ->
               [rec |-> Catch(matched, "TypeError"), frame |-> NoCall]
          [] c.kind = "skip" ->
               [rec |-> NextRow([matched EXCEPT !.results = Count(@, "skipped")]),
                frame |-> NoCall]
          [] c.kind = "update" ->
               [rec |-> [matched EXCEPT !.pc = "await"], frame |-> CallUpdate(c.id, c.data)]
          [] c.kind = "create" ->
               [rec |-> [matched EXCEPT !.pc = "await"], frame |-> CallCreate(c.data)]

RowSearch ==
    /\ rec.pc = "search"
    /\ LET o == AfterSearch(Db, rec)
       IN  /\ rec' = o.rec
           /\ call' = [call EXCEPT !["rec"] = o.frame]
    /\ UNCHANGED <<variant, ui, req, boot, auth, students, history, nextId, clock, api, failures, ops>>

\* the search query fails in the storage layer; the row's catch records it
SearchFails ==
    /\ rec.pc = "search"
    /\ failures < MaxFailures
    /\ rec' = Catch(rec, "08006")
    /\ failures' = failures + 1
    /\ UNCHANGED <<variant, ui, req, boot, auth, students, history, nextId, clock, call, api, ops>>

\* POST / with req.body = body, up to its first await: StudentModel.create(req.body)
PostRequest(body) ==
    /\ call' = [call EXCEPT !["api"] = CallCreate(body)]
    /\ api' = [api EXCEPT !.pc = "await", !.method = "POST", !.status = 0]
    /\ ops' = ops + 1
    /\ UNCHANGED <<variant, ui, req, boot, auth, students, history, nextId, clock, rec, failures>>

\* POST /
ApiPost ==
    /\ api.pc = "idle"
    /\ ops < MaxOps
    /\ \E body \in Bodies : PostRequest(body)

requiredFields ==
    {"idNumber", "lastName", "firstName", "stream", "gender", "track", "status", "cycle"}

\* PUT /:id with req.params.id = id and req.body = body, up to its first await
PutRequest(id, body) ==
    /\ IF \E field \in requiredFields : ~Truthy(body[field])
       THEN /\ api' = [api EXCEPT !.method = "PUT", !.status = 400]
            /\ call' = [call EXCEPT !["api"] = NoCall]
       ELSE /\ api' = [api EXCEPT !.pc = "await", !.method = "PUT", !.status = 0]
            /\ call' = [call EXCEPT !["api"] = CallUpdate(id, body)]
    /\ ops' = ops + 1
    /\ UNCHANGED <<variant, ui, req, boot, auth, students, history, nextId, clock, rec, failures>>

\* PUT /:id
ApiPut ==
    /\ api.pc = "idle"
    /\ ops < MaxOps
    /\ \E id \in RequestIds, body \in Bodies : PutRequest(id, body)

\* the bodies of the PUT requests of a behaviour of updates only: sample student 1
\* as stored, with another track, with a blank grade, with the idNumber of sample
\* student 2, with a cycle that ended last year, and with every column changed
UpdateBodies ==
    LET stored == CHOOSE s \in SampleData : s.id = 1
        same == [c \in Columns |-> stored[c]]
    IN  { same,
          [same EXCEPT !.track = Biology],
          [same EXCEPT !.grade = EMPTY],
          [same EXCEPT !.idNumber = Id987654321],
          [same EXCEPT !.cycle = YearString(academicYear - Len(gradeOrder))],
          [idNumber |-> Id77, lastName |-> Levi, firstName |-> Sara, grade |-> Yud,
           stream |-> <<"2">>, gender |-> Female, track |-> Biology,
           status |-> Completed, cycle |-> YearString(2023)] }

\* PUT /:id, one request after the other
PutStored ==
    /\ api.pc = "idle"
    /\ ops < MaxUpdates
    /\ \E id \in RequestIds, body \in UpdateBodies : PutRequest(id, body)

\* DELETE /:id
ApiDelete ==
    /\ api.pc = "idle"
    /\ ops < MaxOps
    /\ \E id \in RequestIds : call' = [call EXCEPT !["api"] = CallDelete(id)]
    /\ api' = [api EXCEPT !.pc = "await", !.method = "DELETE", !.status = 0]
    /\ ops' = ops + 1
    /\ UNCHANGED <<variant, ui, req, boot, auth, students, history, nextId, clock, rec, failures>>

\* DELETE /all: DELETE FROM students RETURNING id
ApiDeleteAll ==
    /\ api.pc = "idle"
    /\ ops < MaxOps
    /\ SetDb(SqlDeleteAll(Db).db)
    /\ api' = [api EXCEPT !.method = "DELETE /all", !.status = 200]
    /\ call' = [call EXCEPT !["api"] = NoCall]
    /\ ops' = ops + 1
    /\ UNCHANGED <<variant, ui, req, boot, auth, rec, failures>>

\* POST /:id/location with a location in the body
ApiLocation ==
    /\ api.pc = "idle"
    /\ ops < MaxOps
    /\ \E id \in RequestIds : call' = [call EXCEPT !["api"] = CallLocation(id)]
    /\ api' = [api EXCEPT !.pc = "await", !.method = "POST /:id/location", !.status = 0]
    /\ ops' = ops + 1
    /\ UNCHANGED <<variant, ui, req, boot, auth, students, history, nextId, clock, rec, failures>>

\* initDatabase on the tables as they are: sample rows and their first history
\* entry into an empty students table, otherwise the first history entry for every
\* student that has none of that change_type (created_at = student.created_at)
initDatabase(db) ==
    IF db.students = {}
    THEN LET rows == {[s EXCEPT !.id = db.nextId + s.id - 1, !.createdAt = db.clock] :
                         s \in SampleData}
             inserted == OrderById(rows)
         IN  [students |-> rows,
              history |-> db.history \o
                  [j \in 1..Len(inserted) |->
                      EventAt(Event(inserted[j].id, SeedChangeType(variant), NULL, NULL, NULL),
                              inserted[j].createdAt)],
              nextId |-> db.nextId + Cardinality(rows),
              clock |-> db.clock + 1]
    ELSE LET existingStudents ==
                 OrderById({s \in db.students :
                               ~\E j \in 1..Len(db.history) :
                                    /\ db.history[j].studentId = s.id
                                    /\ db.history[j].changeType = SeedChangeType(variant)})
         IN  [db EXCEPT !.history = @ \o
                  [j \in 1..Len(existingStudents) |->
                      EventAt(Event(existingStudents[j].id, SeedChangeType(variant),
                                    NULL, NULL, NULL),
                              existingStudents[j].createdAt)]]

\* the server process is started again: the requests in flight die with the old
\* process, and startServer awaits initDatabase before it listens
Restart ==
    /\ ops < MaxOps
    /\ SetDb(initDatabase(Db))
    /\ call' = [p \in Procs |-> NoCall]
    /\ rec' = IF rec.pc \in {"search", "await"}
              THEN [rec EXCEPT !.pc = "killed", !.studentData = NoRowData,
                               !.existingStudent = {}]
              ELSE rec
    /\ api' = ApiIdle
    /\ ops' = ops + 1
    /\ UNCHANGED <<variant, ui, req, boot, auth, failures>>

\* the statements of StudentModel.create and StudentModel.update
WriteNext(p) ==
    \/ CreateInsert(p)
    \/ CreateSelectDate(p)
    \/ CreateInsertStart(p)
    \/ CreateInsertCreated(p)
    \/ GetById(p)
    \/ UpdateRow(p)
    \/ UpdateHistory(p)
    \/ QueryFails(p)

\* the statements of StudentModel.delete
DeleteNext(p) ==
    \/ DeleteRow(p)
    \/ DeleteHistory(p)

\* an import beside single-record requests
Next ==
    \/ StartReconcile(RaceRows, {"pasted"}, MaxRaceRows)
    \/ RowSearch
    \/ SearchFails
    \/ ApiPost
    \/ ApiPut
    \/ ApiDelete
    \/ ApiDeleteAll
    \/ ApiLocation
    \/ Restart
    \/ \E p \in Procs : WriteNext(p)
    \/ DeleteNext("api")
    \/ LocationInsert("api")

Spec == Init /\ [][Next]_vars

\* one import on its own
NextReconcile ==
    \/ StartReconcile(Rows, Modes, MaxRows)
    \/ RowSearch
    \/ SearchFails
    \/ WriteNext("rec")

SpecReconcile == Init /\ [][NextReconcile]_vars

\* one import on its own, no statement failing in the storage layer
NextRows ==
    \/ StartReconcile(GradeRows, Modes, MaxRows)
    \/ RowSearch
    \/ CreateInsert("rec")
    \/ CreateSelectDate("rec")
    \/ CreateInsertStart("rec")
    \/ CreateInsertCreated("rec")
    \/ GetById("rec")
    \/ UpdateRow("rec")
    \/ UpdateHistory("rec")

SpecRows == Init /\ [][NextRows]_vars

\* PUT requests only, one at a time
NextUpdate ==
    \/ PutStored
    \/ GetById("api")
    \/ UpdateRow("api")
    \/ UpdateHistory("api")

SpecUpdate == Init /\ [][NextUpdate]_vars

\* the bodies of POST / and PUT /:id in a behaviour of single-record requests: a
\* complete body, one with another idNumber, one with an empty lastName, one
\* without track, one with an empty grade and one with a grade of blanks
RequestBodies ==
    LET full == [idNumber |-> Id77, lastName |-> Cohen, firstName |-> David, grade |-> Tet,
                 stream |-> <<"1">>, gender |-> Male, track |-> ComputerScience,
                 status |-> Studying, cycle |-> YearString(2024)]
    IN  { full,
          [full EXCEPT !.idNumber = Id12345],
          [full EXCEPT !.lastName = EMPTY],
          [full EXCEPT !.track = UNDEFINED],
          [full EXCEPT !.grade = EMPTY],
          [full EXCEPT !.grade = <<" ", " ">>] }

\* POST /, one request after the other
PostBody ==
    /\ api.pc = "idle"
    /\ ops < MaxRequests
    /\ \E body \in RequestBodies : PostRequest(body)

\* PUT /:id, one request after the other
PutBody ==
    /\ api.pc = "idle"
    /\ ops < MaxRequests
    /\ \E id \in RequestIds, body \in RequestBodies : PutRequest(id, body)

\* POST / and PUT /:id only, one at a time
NextRequests ==
    \/ PostBody
    \/ PutBody
    \/ CreateInsert("api")
    \/ CreateSelectDate("api")
    \/ CreateInsertStart("api")
    \/ CreateInsertCreated("api")
    \/ GetById("api")
    \/ UpdateRow("api")
    \/ UpdateHistory("api")

SpecRequests == Init /\ [][NextRequests]_vars

\* a request for one of the routes arrives, with USE_AUTH on
HttpRequest ==
    /\ req.pc = "idle"
    /\ \E path \in Paths, token \in Tokens, serviceAccount \in BOOLEAN :
          req' = NextMiddleware([NoRequest EXCEPT !.path = path, !.token = token,
                                                  !.chain = Chain(path),
                                                  !.serviceAccount = serviceAccount])
    /\ UNCHANGED <<Server, ui, auth>>

\* verifyToken: no token, jwt.verify, issuer, audience; then req.user = decoded
VerifyToken ==
    /\ req.pc = "verifyToken"
    /\ LET decoded == req.token
           tokenIssuer == StripSlash(OrEmpty(decoded.iss))
       IN  req' = IF ~decoded.bearer THEN Answer(req, 401)
                  ELSE IF ~decoded.signed THEN Answer(req, 401)
                  ELSE IF tokenIssuer # issuerBase THEN Answer(req, 401)
                  ELSE IF ~\E j \in 1..Len(decoded.aud) : decoded.aud[j] = ClientId
                       THEN Answer(req, 401)
                  ELSE NextMiddleware([req EXCEPT !.user =
                           [set |-> TRUE, isSuperuser |-> isSuperuser(decoded)]])
    /\ UNCHANGED <<Server, ui, auth>>

\* requireSuperuser: if (!req.user || !req.user.isSuperuser) 403
RequireSuperuser ==
    /\ req.pc = "requireSuperuser"
    /\ req' = IF ~req.user.set \/ ~req.user.isSuperuser THEN Answer(req, 403)
              ELSE NextMiddleware(req)
    /\ UNCHANGED <<Server, ui, auth>>

\* the route's handler: the Authentik routes answer 503 without a service account
Handler ==
    /\ req.pc = "handler"
    /\ req' = IF req.path \in AuthentikPaths /\ ~req.serviceAccount THEN Answer(req, 503)
              ELSE Answer(req, 200)
    /\ UNCHANGED <<Server, ui, auth>>

NextAuth ==
    \/ HttpRequest
    \/ VerifyToken
    \/ RequireSuperuser
    \/ Handler

SpecAuth == Init /\ [][NextAuth]_vars

\* the server process starts: initDatabase() on a database that is fresh or
\* already holds the sample rows
InitBoot ==
    /\ ui = NoUi
    /\ req = NoRequest
    /\ auth = NoAuth
    /\ boot \in {BootStart(retries) : retries \in 1..MaxRetries}
    /\ variant \in {"backend/db.js", "unnamed/part_002"}
    /\ \E db \in {InitialDb(variant),
                   [students |-> {}, history |-> <<>>, nextId |-> 1, clock |-> 1]} :
          /\ students = db.students
          /\ history = db.history
          /\ nextId = db.nextId
          /\ clock = db.clock
    /\ call = [p \in Procs |-> NoCall]
    /\ rec = RecIdle
    /\ api = ApiIdle
    /\ failures = 0
    /\ ops = 0

Started == <<variant, call, rec, api, failures, ops, ui, req, auth>>

\* await pool.query('SELECT NOW()') answers
BootConnect ==
    /\ boot.pc = "SELECT NOW()"
    /\ boot' = [boot EXCEPT !.pc = "CREATE TABLE"]
    /\ UNCHANGED <<Started, students, history, nextId, clock>>

\* the statements from CREATE TABLE to the last history INSERT go through; return
BootInit ==
    /\ boot.pc = "CREATE TABLE"
    /\ SetDb(initDatabase(Db))
    /\ boot' = [boot EXCEPT !.pc = "returned", !.completed = TRUE]
    /\ UNCHANGED Started

\* a statement of the attempt is rejected (the tables are left as they were)
BootFails ==
    /\ boot.pc \in {"SELECT NOW()", "CREATE TABLE"}
    /\ \E error \in BootErrors : boot' = BootCatch(boot, error)
    /\ UNCHANGED <<Started, students, history, nextId, clock>>

\* await wait(delay) is over: i++ and the next attempt
BootWait ==
    /\ boot.pc = "wait"
    /\ boot' = [boot EXCEPT !.pc = "SELECT NOW()", !.i = @ + 1, !.waits = @ + 1]
    /\ UNCHANGED <<Started, students, history, nextId, clock>>

NextBoot ==
    \/ BootConnect
    \/ BootInit
    \/ BootFails
    \/ BootWait

\* every awaited query settles and every timer fires
SpecBoot == InitBoot /\ [][NextBoot]_vars /\ WF_vars(NextBoot)

\* the provider mounts: the effect runs checkAuth up to its first await, with the
\* fetch of /api/auth/config under way and both 5-second timers armed
Mount ==
    /\ auth.pc = "idle"
    /\ auth' = [auth EXCEPT !.pc = "config", !.mounted = TRUE, !.fetch = "fetch",
                            !.overallTimeout = "armed"]
    /\ UNCHANGED <<Server, ui, req>>

\* the effect's cleanup: mounted = false
Unmount ==
    /\ auth.mounted
    /\ auth' = [auth EXCEPT !.mounted = FALSE]
    /\ UNCHANGED <<Server, ui, req>>

\* fetch resolves: clearTimeout; a response that is not ok throws, and the catch
\* returns { enabled: false }; otherwise await response.json()
FetchResponds ==
    /\ auth.fetch = "fetch"
    /\ \E ok \in BOOLEAN, body \in {"enabled", "disabled", "null"} :
          auth' = IF ok THEN [auth EXCEPT !.fetch = "json", !.body = body]
                  ELSE ConfigSettles(auth, "disabled")
    /\ UNCHANGED <<Server, ui, req>>

\* fetch rejects, at the latest when its timer aborts it: return { enabled: false }
FetchFails ==
    /\ auth.fetch = "fetch"
    /\ auth' = ConfigSettles(auth, "disabled")
    /\ UNCHANGED <<Server, ui, req>>

\* response.json() settles: the body, or { enabled: false } when it rejects
JsonSettles ==
    /\ auth.fetch = "json"
    /\ \E parsed \in BOOLEAN :
          auth' = ConfigSettles(auth, IF parsed THEN auth.body ELSE "disabled")
    /\ UNCHANGED <<Server, ui, req>>

\* the overall timer: if (mounted) resolve({ enabled: false })
OverallTimeout ==
    /\ auth.overallTimeout = "armed"
    /\ LET a == [auth EXCEPT !.overallTimeout = "fired"]
       IN  auth' = IF a.mounted /\ a.pc = "config" THEN AfterConfig(a, "disabled", "timeout")
                   ELSE a
    /\ UNCHANGED <<Server, ui, req>>

\* manager.getUser() settles: a user, an expired one, none, or a rejection, which
\* getUser's catch turns into null
ManagerSettles ==
    /\ auth.manager = "pending"
    /\ \E user \in {"user", "expired", "null"} : auth' = AfterGetUser(auth, user)
    /\ UNCHANGED <<Server, ui, req>>

\* getUser's 2-second timer rejects first: return null
GetUserTimeout ==
    /\ auth.manager = "pending"
    /\ auth' = AfterGetUser(auth, "null")
    /\ UNCHANGED <<Server, ui, req>>

\* checkAuth's 2-second timer resolves false before isAuthenticated() has settled
AuthCheckTimeout ==
    /\ auth.pc = "authenticated"
    /\ auth' = AfterAuthenticated(auth, FALSE)
    /\ UNCHANGED <<Server, ui, req>>

NextProvider ==
    \/ Mount
    \/ Unmount
    \/ FetchResponds
    \/ FetchFails
    \/ JsonSettles
    \/ OverallTimeout
    \/ ManagerSettles
    \/ GetUserTimeout
    \/ AuthCheckTimeout

\* every timer that is armed fires
SpecProvider ==
    /\ Init
    /\ [][NextProvider]_vars
    /\ WF_vars(FetchFails)
    /\ WF_vars(OverallTimeout)
    /\ WF_vars(GetUserTimeout)
    /\ WF_vars(AuthCheckTimeout)

(***************************************************************************)
(* The frontend's helpers for the relation of cycle and grade (App.jsx).   *)
(* NaN is -1; a helper's null is NULL.                                     *)
(***************************************************************************)
NaN == 0 - 1

IsDigit(c) == \E n \in 1..Len(Digits) : Digits[n] = c

DigitValue(c) == (CHOOSE n \in 1..Len(Digits) : Digits[n] = c) - 1

\* the number the leading digits of s spell, after acc
RECURSIVE ParseDigits(_, _)
ParseDigits(s, acc) ==
    IF s = <<>> \/ ~IsDigit(s[1]) THEN acc
    ELSE ParseDigits(Tail(s), 10 * acc + DigitValue(s[1]))

\* parseInt(cycle) for a string without sign or leading blanks
parseInt(s) ==
    IF ~IsString(s) \/ s = EMPTY \/ ~IsDigit(s[1]) THEN NaN ELSE ParseDigits(s, 0)

getCurrentYear == IF now.month >= 9 THEN now.year ELSE now.year - 1

LAST_GRADE_INDEX == Len(gradeOrder) - 1

getCycleStatusLate(cycle, currentYear) ==
    LET year == IF currentYear = 0 THEN getCurrentYear ELSE currentYear
        cycleYear == parseInt(cycle)
    IN  IF ~Truthy(cycle) \/ cycleYear = NaN THEN "null"
        ELSE IF year - cycleYear < 0 THEN "future"
        ELSE IF year - cycleYear > LAST_GRADE_INDEX + 1 THEN "ended"
        ELSE "active"

\* getCycleStatus(cycle, currentYear = null): 'active', 'ended', 'future' or null
getCycleStatus(cycle, currentYear) ==
    LET year == IF currentYear = 0 THEN getCurrentYear ELSE currentYear
        cycleYear == parseInt(cycle)
        yearDiff == year - cycleYear
    IN  IF ~Truthy(cycle) THEN "null"
        ELSE IF cycleYear = NaN THEN "null"
        ELSE IF yearDiff < 0 THEN "future"
        ELSE IF yearDiff > LAST_GRADE_INDEX THEN "ended"
        ELSE "active"

\* calculateGradeFromCycle(cycle, currentYear = null)
calculateGradeFromCycle(cycle, currentYear) ==
    LET year == IF currentYear = 0 THEN getCurrentYear ELSE currentYear
    IN  IF ~Truthy(cycle) THEN NULL
        ELSE IF getCycleStatus(cycle, year) = "active"
             THEN gradeOrder[(year - parseInt(cycle)) + 1]
             ELSE NULL

PlausibleFrom == 2000

calculateCycleFromGradeNext(grade, currentYear) ==
    IF ~Truthy(grade) \/ currentYear = 0 \/ IndexOfGrade(grade) = 0 - 1 THEN NULL
    ELSE YearString(currentYear - IndexOfGrade(grade) + 1)

\* calculateCycleFromGrade(grade, currentYear)
calculateCycleFromGrade(grade, currentYear) ==
    LET gradeIndex == IndexOfGrade(grade)
        cycleYear == currentYear - gradeIndex
    IN  IF ~Truthy(grade) \/ currentYear = 0 THEN NULL
        ELSE IF gradeIndex = 0 - 1 THEN NULL
        ELSE IF cycleYear < PlausibleFrom \/ cycleYear > currentYear + 1 THEN NULL
        ELSE YearString(cycleYear)

\* the arguments the helpers are called with: a recognized grade, no grade or
\* other text; a reference year; a cycle around that year or none
UiYears == (PlausibleFrom - 2)..(PlausibleFrom + MaxYears)

UiInputs ==
    {[NoUi EXCEPT !.grade = grade, !.currentYear = currentYear, !.cycle = cycle] :
        grade \in {gradeOrder[j] : j \in 1..Len(gradeOrder)} \cup {EMPTY, StripQuotes(Tet)},
        currentYear \in UiYears,
        cycle \in {YearString(c) : c \in (PlausibleFrom - 9)..(PlausibleFrom + MaxYears + 2)}
                     \cup {EMPTY}}

InitCycle ==
    /\ ui \in {u \in UiInputs :
                 u.cycle = EMPTY \/ \E d \in (0 - 2)..(Len(gradeOrder) + 1) :
                                        u.cycle = YearString(u.currentYear - d)}
    /\ req = NoRequest
    /\ auth = NoAuth
    /\ boot = BootDone
    /\ variant = "backend/db.js"
    /\ students = SampleData
    /\ history = SampleHistory(variant)
    /\ nextId = 5
    /\ clock = 2
    /\ call = [p \in Procs |-> NoCall]
    /\ rec = RecIdle
    /\ api = ApiIdle
    /\ failures = 0
    /\ ops = 0

GetCycleStatus ==
    /\ ui.cycleStatus = ""
    /\ ui' = [ui EXCEPT !.cycleStatus = getCycleStatus(ui.cycle, ui.currentYear)]
    /\ UNCHANGED <<Server, req, auth>>

CalculateGradeFromCycle ==
    /\ ui.gradeFromCycle = UNDEFINED
    /\ ui' = [ui EXCEPT !.gradeFromCycle = calculateGradeFromCycle(ui.cycle, ui.currentYear)]
    /\ UNCHANGED <<Server, req, auth>>

CalculateCycleFromGrade ==
    /\ ui.cycleFromGrade = UNDEFINED
    /\ ui' = [ui EXCEPT !.cycleFromGrade = calculateCycleFromGrade(ui.grade, ui.currentYear)]
    /\ UNCHANGED <<Server, req, auth>>

\* calculateGradeFromCycle(calculateCycleFromGrade(grade, currentYear), currentYear)
RoundTrip ==
    /\ ui.cycleFromGrade # UNDEFINED
    /\ ui.roundTrip = UNDEFINED
    /\ ui' = [ui EXCEPT !.roundTrip = calculateGradeFromCycle(ui.cycleFromGrade, ui.currentYear)]
    /\ UNCHANGED <<Server, req, auth>>

NextCycle ==
    \/ GetCycleStatus
    \/ CalculateGradeFromCycle
    \/ CalculateCycleFromGrade
    \/ RoundTrip

SpecCycle == InitCycle /\ [][NextCycle]_vars

(***************************************************************************)
(* A whole import with nothing else running and no storage failure: the    *)
(* same steps, one after the other.                                        *)
(***************************************************************************)
RECURSIVE RunReconcile(_, _)
RunReconcile(db, r) ==
    IF r.pc # "search" THEN [db |-> db, rec |-> r]
    ELSE LET o == AfterSearch(db, r)
         IN  IF o.rec.pc = "await"
             THEN LET out == RunCall(db, o.frame)
                  IN  RunReconcile(out.db, RowReturn(o.rec, out.frame))
             ELSE RunReconcile(db, o.rec)

Reconcile(db, rows, mode) ==
    RunReconcile(db, LoopHead([RecIdle EXCEPT !.mode = mode, !.rows = rows]))

(***************************************************************************)
(* Properties.                                                             *)
(***************************************************************************)
LiveIds == Ids(Db)

HasEvent(id, changeType) ==
    \E j \in 1..Len(history) :
        history[j].studentId = id /\ history[j].changeType = changeType

\* the events StudentModel.create appends for a row it has inserted
CreateEvents == IF variant = "backend/db.js" THEN {"start_studies", "created"} ELSE {"created"}

\* the newest field_update event of student id for the field labelled name (0: none)
LastUpdate(id, name) ==
    LET hits == {j \in 1..Len(history) :
                    /\ history[j].studentId = id
                    /\ history[j].changeType = "field_update"
                    /\ history[j].fieldName = name}
    IN  IF hits = {} THEN 0 ELSE CHOOSE j \in hits : \A m \in hits : m <= j

\* C1: a single-record mutation's row write and its history events are committed
\* together or not at all, in every state a concurrent reader can see, a failed
\* statement included: a row inserted by create has all the events create appends,
\* and a column that update has changed holds the value its newest field_update
\* event records.  (delete's own event is the subject of C2.)
C1_AtomicMutation ==
    \A s \in students :
        /\ s.id \notin Ids(InitialDb(variant)) => \A t \in CreateEvents : HasEvent(s.id, t)
        /\ \A j \in 1..Len(fieldsToTrack) :
              LET field == fieldsToTrack[j]
                  last == LastUpdate(s.id, field.name)
              IN  (field.key # "grade" /\ last # 0) => history[last].newValue = s[field.key]

\* C2: delete(id) on an existing student removes the row, appends a deleted event
\* and returns to the caller; a delete that has removed the row does not end in an
\* error (a lost connection set aside).
C2_DeleteSucceeds ==
    ( /\ api.method = "DELETE"
      /\ call["api"].pc \in Finished
      /\ call["api"].rows # {}
      /\ call["api"].err # "08006" )
    => ( /\ api.status = 204
         /\ HasEvent(call["api"].id, "deleted") )

\* C3: once a student is deleted (DELETE /:id or DELETE /all) no history event with
\* its id is in the ledger, then or later; the step that deletes leaves the events
\* of every remaining student as they were.
C3_DeleteCascades ==
    /\ [](\A j \in 1..Len(history) : history[j].studentId \in LiveIds)
    /\ [][ (LiveIds' # LiveIds /\ LiveIds' \subseteq LiveIds)
             => \A id \in LiveIds' : getHistory(Db, id)' = getHistory(Db, id) ]_vars

\* C3 witness: DELETE /:id has removed sample student 1, whose start event is gone,
\* while the other students' events are still there
C3_Witness ==
    /\ api.method = "DELETE"
    /\ call["api"].rows # {}
    /\ 1 \notin LiveIds
    /\ Len(history) >= 3

\* C4: no two stored students have the same idNumber, whatever the interleaving of
\* create, update and import rows.
C4_UniqueIdNumber ==
    \A s \in students, t \in students : s.idNumber = t.idNumber => s.id = t.id

\* C4 witness: the import searched for id_number 77, found nothing, and lost the race
\* to POST /: its INSERT failed with 23505 and one row holds 77
C4_Witness ==
    /\ \E j \in 1..Len(rec.results.errors) :
          /\ rec.results.errors[j].message = "23505"
          /\ rec.results.errors[j].idNumber = Id77
    /\ api.method = "POST"
    /\ Cardinality({s \in students : s.idNumber = Id77}) = 1

Classified(results) == results.created + results.updated + results.skipped

\* C5 as claimed: when reconcile returns, created + updated + skipped = processed.
C5_CountsEqualProcessed ==
    rec.pc = "done" => Classified(rec.results) = rec.results.processed

\* C5 as amended: when reconcile returns, created + updated + skipped is at most
\* processed, and equals it exactly when no row raised an error.
C5_CountsEqualProcessedUnlessErrors ==
    rec.pc = "done" =>
        /\ Classified(rec.results) <= rec.results.processed
        /\ (Classified(rec.results) = rec.results.processed
              <=> rec.results.errors = <<>>)

\* C5 witness: an import of two counted rows has returned with one row error
C5_Witness ==
    /\ rec.pc = "done"
    /\ rec.results.processed = 2
    /\ Len(rec.results.errors) = 1

\* C6: every counted row ends as exactly one of created, updated, skipped or a row
\* error: between rows and at the end processed is their sum; while a row is being
\* handled it is one ahead.
C6_OneOutcomePerRow ==
    rec.results.processed =
        Classified(rec.results) + Len(rec.results.errors)
            + (IF rec.pc \in {"search", "await"} THEN 1 ELSE 0)

\* C6 witness: an import has returned with one row created and one row in error
C6_Witness ==
    /\ rec.pc = "done"
    /\ rec.results.created = 1
    /\ Len(rec.results.errors) = 1
    /\ rec.results.processed = 2

\* C7: a row that raises never aborts the batch: the import does not end by
\* raising, and it returns only after the last row.
C7_BadRowNeverAborts ==
    /\ rec.pc # "aborted"
    /\ rec.pc = "done" => rec.i = Len(rec.rows) + 1

DistinctKeys(rows) ==
    \A j \in 1..Len(rows), m \in 1..Len(rows) :
        rows[j].idNumber = rows[m].idNumber => j = m

\* the import that has just returned was an undisturbed one: no storage failure,
\* no row error, no natural key twice
Undisturbed ==
    /\ rec.pc = "done"
    /\ failures = 0
    /\ rec.results.errors = <<>>
    /\ DistinctKeys(rec.rows)

\* C8: running reconcile again on the same rows, with nothing else changed, reports
\* created = 0, updated = 0, skipped = processed and changes no row and no event.
C8_Idempotent ==
    Undisturbed =>
        LET again == Reconcile(Db, rec.rows, rec.mode)
        IN  /\ again.rec.results.created = 0
            /\ again.rec.results.updated = 0
            /\ again.rec.results.skipped = again.rec.results.processed
            /\ again.db.students = students
            /\ again.db.history = history

\* the stored students by natural key: every column but the surrogate id
Records(rows) == {[c \in Columns |-> s[c]] : s \in rows}

Orders(rows) ==
    {[j \in 1..Len(rows) |-> rows[f[j]]] :
        f \in {g \in [1..Len(rows) -> 1..Len(rows)] :
                  \A a \in 1..Len(rows), b \in 1..Len(rows) : g[a] = g[b] => a = b}}

\* C9: for a source without duplicate natural keys, every order of the same rows,
\* run from the same store, ends with the same student records.
C9_OrderIrrelevant ==
    Undisturbed =>
        \A other \in Orders(rec.rows) :
            Records(Reconcile(InitialDb(variant), other, rec.mode).db.students)
                = Records(students)

\* C10: the student a row is matched to holds exactly the row's idNumber.
C10_ExactMatch ==
    \A s \in rec.existingStudent : s.idNumber = rec.studentData.idNumber

(***************************************************************************)
(* update, seen from outside: the events a candidate must leave behind.    *)
(***************************************************************************)
TrackedFields ==
    <<"idNumber", "lastName", "firstName", "grade", "stream", "gender", "track",
      "status", "cycle">>

Label(key) ==
    (CHOOSE field \in {fieldsToTrack[j] : j \in 1..Len(fieldsToTrack)} : field.key = key).name

\* one field_update per tracked field whose stored value is not the candidate's
FieldUpdates(id, stored, candidate) ==
    LET changed == SelectSeq(TrackedFields, LAMBDA c : stored[c] # candidate[c])
    IN  [j \in 1..Len(changed) |->
            Event(id, "field_update", Label(changed[j]),
                  PgParam(stored[changed[j]]), PgParam(candidate[changed[j]]))]

\* the ledger without its timestamps
Unstamped(h) == [j \in 1..Len(h) |-> [h[j] EXCEPT !.createdAt = 0]]

LastEvents(h, n) == SubSeq(h, Len(h) - n + 1, Len(h))

\* the student with this id as stored
Stored(id) == CHOOSE s \in students : s.id = id

Absent(v) == v \in {NULL, UNDEFINED} \/ Trim(v) = EMPTY

\* the candidate leaves every tracked field at its stored value
SameAsStored(stored, candidate) ==
    \A j \in 1..Len(TrackedFields) :
        LET c == TrackedFields[j]
        IN  \/ stored[c] = candidate[c]
            \/ c = "grade" /\ Absent(stored[c]) /\ Absent(candidate[c])

\* C12: an update whose candidate leaves every tracked field at its stored value (a
\* blank grade counting as an absent stored grade) returns without an error and
\* appends no history event.
C12_NoOpUpdate ==
    ( /\ call["api"].fn = "update"
      /\ call["api"].pc = "getById"
      /\ call["api"].id \in LiveIds
      /\ SameAsStored(Stored(call["api"].id), call["api"].data) )
    => LET out == RunCall(Db, call["api"])
       IN  /\ out.frame.pc = "returned"
           /\ out.db.history = history

\* no call is between two of its statements, none was cut short by a storage
\* failure or by the process going down
Quiescent ==
    /\ \A p \in Procs : ~Pending(p)
    /\ failures = 0
    /\ rec.pc # "killed"

CreationTypes == {"created", "start_studies"}

\* C13: immediately after a successful create the new student's history is exactly
\* two events, one created and one start_studies, both timestamped at the student's
\* createdAt.
C13_TwoCreationEvents ==
    ( /\ call["api"].fn = "create"
      /\ call["api"].pc = "returned"
      /\ rec.pc = "idle" )
    => \A s \in call["api"].rows :
          LET h == getHistory(Db, s.id)
          IN  /\ Len(h) = 2
              /\ {h[1].changeType, h[2].changeType} = CreationTypes
              /\ h[1].createdAt = s.createdAt
              /\ h[2].createdAt = s.createdAt

IsPrefix(a, b) == Len(a) <= Len(b) /\ SubSeq(b, 1, Len(a)) = a

C15_OneCreationEventAtCreatedAt ==
    Quiescent =>
        \A s \in students :
            Cardinality({j \in 1..Len(history) :
                            /\ history[j].studentId = s.id
                            /\ history[j].changeType \in CreationTypes
                            /\ history[j].createdAt = s.createdAt}) = 1

\* the phase of a stored student's cycle in the current academic year
cyclePhase(student) == getCycleStatus(student.cycle, academicYear)

Recognized == {gradeOrder[j] : j \in 1..Len(gradeOrder)}

\* the students a request has written (the sample rows as seeded set aside)
Written == students \ SampleData

\* C16: each stored student that create, update or reconcile has written has a
\* recognized grade if its cycle is active, and no grade if its cycle has ended or
\* is still to come.
C16_GradeFollowsPhase ==
    \A s \in Written :
        /\ cyclePhase(s) = "active" => s.grade \in Recognized
        /\ cyclePhase(s) \in {"ended", "future"} => Absent(s.grade)

\* C17: no stored student that a request has written has status studying while its
\* cycle has ended or is still to come.
C17_StudyingOnlyWhenActive ==
    \A s \in Written : s.status = Studying => cyclePhase(s) = "active"

\* the reference year and the grade the helpers were called with
UiIndex == IndexOfGrade(ui.grade)

\* C18 as claimed: for every recognized grade g and every reference year y,
\* cycleFromGrade(g, y) is defined and gradeFromCycle(cycleFromGrade(g, y), y) = g.
C18_RoundTrip ==
    (ui.grade \in Recognized /\ ui.roundTrip # UNDEFINED)
    => /\ ui.cycleFromGrade # NULL
       /\ ui.roundTrip = ui.grade

\* C18 as amended: for every recognized grade g and reference year y whose cycle
\* y - indexOf(g) is not before the first plausible cycle, cycleFromGrade(g, y) is
\* defined and gradeFromCycle(cycleFromGrade(g, y), y) = g; for an earlier
\* reference year cycleFromGrade(g, y) is none.
C18_RoundTripInWindow ==
    /\ (ui.grade \in Recognized /\ ui.cycleFromGrade # UNDEFINED)
       => (ui.cycleFromGrade # NULL <=> ui.currentYear - UiIndex >= PlausibleFrom)
    /\ ( /\ ui.grade \in Recognized
         /\ ui.roundTrip # UNDEFINED
         /\ ui.currentYear - UiIndex >= PlausibleFrom )
       => /\ ui.cycleFromGrade = YearString(ui.currentYear - UiIndex)
          /\ ui.roundTrip = ui.grade

\* C18 witness: the last grade in the year the model's imports run in, there and back
C18_Witness ==
    /\ ui.grade = YudDalet
    /\ ui.currentYear = academicYear
    /\ ui.cycleFromGrade = YearString(academicYear - LAST_GRADE_INDEX)
    /\ ui.roundTrip = YudDalet

\* y - c for the cycle and reference year the helpers were called with
UiDiff ==
    ui.currentYear - (CHOOSE c \in (PlausibleFrom - 9)..(PlausibleFrom + MaxYears + 2) :
                         YearString(c) = ui.cycle)

\* C19: cyclePhase(c, y) is future when y - c < 0, ended when y - c > 5 and active
\* otherwise; gradeFromCycle(c, y) is defined exactly when the phase is active and is
\* then gradeOrder[y - c]; in academic year 2024 cycle 2024 is active with the entry
\* grade, 2018 has ended and 2025 is still to come.
C19_PhaseAndGrade ==
    ui.cycle # EMPTY =>
        /\ ui.cycleStatus # ""
           => /\ ui.cycleStatus = (IF UiDiff < 0 THEN "future"
                                   ELSE IF UiDiff > 5 THEN "ended" ELSE "active")
              /\ ui.gradeFromCycle # UNDEFINED
                 => (ui.gradeFromCycle # NULL <=> ui.cycleStatus = "active")
        /\ ui.gradeFromCycle # UNDEFINED
           => IF UiDiff \in 0..5 THEN ui.gradeFromCycle = gradeOrder[UiDiff + 1]
                                 ELSE ui.gradeFromCycle = NULL
        /\ (ui.currentYear = 2024 /\ ui.cycleStatus # "" /\ ui.gradeFromCycle # UNDEFINED)
           => /\ ui.cycle = YearString(2024)
                 => ui.cycleStatus = "active" /\ ui.gradeFromCycle = Tet
              /\ ui.cycle = YearString(2018) => ui.cycleStatus = "ended"
              /\ ui.cycle = YearString(2025) => ui.cycleStatus = "future"

\* C19 witness: cycle 2018 looked up in 2024: ended, no grade
C19_Witness ==
    /\ ui.currentYear = 2024
    /\ ui.cycle = YearString(2018)
    /\ ui.cycleStatus = "ended"
    /\ ui.gradeFromCycle = NULL

\* C20: a create whose idNumber is already stored, or an update whose idNumber is
\* that of another student, fails with the duplicate-key error, which the route
\* answers with 409 without calling again, and the failing statement - the call's
\* first write - leaves every student row and the ledger as they were.
C20_DuplicateKeyChangesNothing ==
    /\ []( ( /\ api.method \in {"POST", "PUT"}
             /\ call["api"].pc = "thrown"
             /\ call["api"].err = "23505" )
           => (api.status = 409 /\ api.pc = "idle") )
    /\ [][ ( /\ call["api"].pc \notin Finished
             /\ call'["api"].pc = "thrown"
             /\ call'["api"].err = "23505" )
           => /\ call["api"].pc \in {"INSERT students", "UPDATE"}
              /\ students' = students
              /\ history' = history ]_vars

\* C20 witness: PUT /1 asked for the idNumber the import had just created; it was
\* answered 409 and student 1 still has its own
C20_Witness ==
    /\ api.method = "PUT"
    /\ api.status = 409
    /\ call["api"].err = "23505"
    /\ \E s \in students : s.id = 1 /\ s.idNumber = Id123456789
    /\ \E s \in students : s.id # 1 /\ s.idNumber = call["api"].data.idNumber

\* C21: update, delete and addLocationChange called with an id that is not stored
\* return null, which the route answers with 404 and not with an error, and the
\* step leaves every student row and the ledger as they were (a lost connection set
\* aside); addLocationChange on a stored student appends exactly one
\* location_change event for it and leaves every student row as it was.
C21_NotFoundChangesNothing ==
    [][ /\ ( /\ call["api"].pc = "getById"
             /\ call["api"].id \notin LiveIds
             /\ call'["api"].pc \in Finished
             /\ call'["api"].err # "08006" )
           => /\ call'["api"].pc = "returned"
              /\ call'["api"].rows = {}
              /\ api'.status = 404
              /\ students' = students
              /\ history' = history
        /\ ( /\ call["api"].pc = "INSERT location_change"
             /\ call'["api"].pc = "returned" )
           => /\ api'.status = 200
              /\ students' = students
              /\ Unstamped(history')
                   = Append(Unstamped(history),
                            Event(call["api"].id, "location_change", NULL, NULL, NULL)) ]_vars

\* C21 witness: POST /5/location while no student 5 is stored was answered 404 and
\* the ledger holds no location_change event
C21_Witness ==
    /\ api.method = "POST /:id/location"
    /\ api.status = 404
    /\ call["api"].id = 5
    /\ call["api"].pc = "returned"
    /\ \A j \in 1..Len(history) : history[j].changeType # "location_change"

\* C22: a POST / or PUT /:id whose body has a missing or empty mandatory field is
\* rejected before any storage write is attempted: StudentModel.create / update is
\* never called with such a body, and no stored student that a request has written
\* has an empty mandatory field.
C22_ValidatedBeforeWrite ==
    /\ call["api"].fn \in {"create", "update"}
          => \A field \in requiredFields : Truthy(call["api"].data[field])
    /\ \A s \in Written : \A field \in requiredFields : Truthy(s[field])

\* a token verifyToken's checks pass and whose claims make its bearer a superuser
ValidSuperuserToken(token) ==
    /\ token.bearer
    /\ token.signed
    /\ StripSlash(OrEmpty(token.iss)) = issuerBase
    /\ \E j \in 1..Len(token.aud) : token.aud[j] = ClientId
    /\ isSuperuser(token)

\* the route's handler has run for the request
Served == req.pc = "done" /\ req.status \in {200, 503}

\* C23: with authentication on, a request for an Authentik user-management
\* endpoint reaches the endpoint's handler if it carries a valid token of a
\* superuser, and is rejected if it does not.
C23_SuperuserEndpoints ==
    (req.pc = "done" /\ req.path \in AuthentikPaths)
    => (Served <=> ValidSuperuserToken(req.token))

\* C24: initDatabase makes at most retries attempts, with one delay between two
\* attempts; it returns exactly when an attempt has completed, without a further
\* attempt; when every attempt has failed it throws the error of the last one; and
\* it always ends, by returning or by throwing.
C24_RetriesThenThrows ==
    /\ [](/\ boot.i + 1 <= boot.retries
          /\ Len(boot.errors) <= boot.retries
          /\ boot.waits = boot.i
          /\ boot.pc = "returned" <=> boot.completed
          /\ boot.pc = "thrown"
                => /\ Len(boot.errors) = boot.retries
                   /\ boot.thrown = boot.errors[boot.retries])
    /\ <>(boot.pc \in {"returned", "thrown"})

\* C24 witness: with the default of five attempts, all five failed, four delays
\* were waited and the fifth error was thrown
C24_Witness ==
    /\ boot.retries = DefaultRetries
    /\ boot.pc = "thrown"
    /\ Len(boot.errors) = DefaultRetries
    /\ boot.waits = DefaultRetries - 1
    /\ boot.thrown = boot.errors[DefaultRetries]

\* C25: an import never changes the status of a student that is already stored:
\* whatever a row does to the student it is matched to (update or skip), every
\* stored student has after the step the status it had before.
C25_StatusPreserved ==
    [][ \A s \in students : \A t \in students' : t.id = s.id => t.status = s.status ]_vars

\* C25 witness: the import has updated sample student 3, whose track is the row's
\* and whose status is still the one it had, not the status of a new student
C25_Witness ==
    /\ rec.pc = "done"
    /\ rec.results.updated >= 1
    /\ \E s \in students :
          s.id = 3 /\ s.track = Biology /\ s.status = Discontinued

\* the position in gradeOrder (from 0) of the grade a row's text stands for, with
\* or without its quote marks; -1 when it stands for none
RowGrade(text) ==
    LET hits == {j \in 1..Len(gradeOrder) :
                    gradeOrder[j] = text \/ StripQuotes(gradeOrder[j]) = StripQuotes(text)}
    IN  IF ~IsString(text) \/ hits = {} THEN 0 - 1 ELSE (CHOOSE j \in hits : TRUE) - 1

\* the cycle a row should be given, next to the student it is matched to (if any)
RowCycle(row, matched) ==
    LET derived == academicYear - RowGrade(row.grade)
    IN  IF RowGrade(row.grade) # 0 - 1 /\ derived >= PlausibleFrom /\ derived <= academicYear + 1
        THEN YearString(derived)
        ELSE IF matched # {} THEN (CHOOSE s \in matched : TRUE).cycle
        ELSE YearString(academicYear)

\* C26: the cycle a row's update or create is called with is academicYear -
\* indexOf(grade) when the row's grade is recognized and that year lies in
\* [2000, academicYear + 1]; otherwise the matched student's stored cycle for an
\* update and the current academic year for a create; a create is called with
\* status studying; and the call that has gone through has stored that cycle.
C26_CycleOfRow ==
    /\ (rec.pc = "await" /\ Pending("rec"))
       => LET f == call["rec"]
          IN  /\ f.data.cycle = RowCycle(rec.studentData, rec.existingStudent)
              /\ f.fn = "create" <=> rec.existingStudent = {}
              /\ f.fn = "create" => f.data.status = Studying
    /\ (rec.pc = "await" /\ call["rec"].pc \in {"INSERT created", "INSERT field_update"})
       => \E s \in students :
             /\ s.id = call["rec"].id
             /\ s.cycle = RowCycle(rec.studentData, rec.existingStudent)

\* C26 witness: the row for idNumber 77, whose grade is no grade and which matched
\* nobody, was created with the current academic year as cycle and status studying
C26_Witness ==
    /\ rec.pc = "done"
    /\ rec.results.created = 1
    /\ \E s \in students :
          /\ s.idNumber = Id77
          /\ s.grade = <<"x">>
          /\ s.cycle = YearString(academicYear)
          /\ s.status = Studying

\* a row without natural key, surname or given name
Incomplete(row) ==
    \E c \in {"idNumber", "lastName", "firstName"} : row[c] \in {NULL, UNDEFINED, EMPTY}

\* the rows of the import that are not incomplete
Complete == {j \in 1..Len(rec.rows) : ~Incomplete(rec.rows[j])}

\* C27: a row with an empty natural key, surname or given name is dropped. When
\* the import has returned, processed is the number of the other rows; an import
\* of such rows only has counted nothing, reported no error and left the students
\* and the ledger as they were; and every student the import has written is the
\* student of a row that was not dropped.
C27_EmptyRowsDropped ==
    rec.pc = "done" =>
        /\ rec.results.processed = Cardinality(Complete)
        /\ Complete = {} => /\ rec.results = NoResults
                            /\ students = SampleData
                            /\ history = SampleHistory(variant)
        /\ \A s \in Written :
              \E j \in Complete :
                  /\ s.idNumber = rec.rows[j].idNumber
                  /\ s.lastName = rec.rows[j].lastName
                  /\ s.firstName = rec.rows[j].firstName

\* C27 witness: of two rows the one without lastName was dropped and the other one
\* was created
C27_Witness ==
    /\ rec.pc = "done"
    /\ Len(rec.rows) = 2
    /\ \E j \in 1..2 : rec.rows[j].lastName = UNDEFINED
    /\ rec.results.processed = 1
    /\ rec.results.created = 1
    /\ rec.results.errors = <<>>

\* C28: the student a create or an update has stored and returned has no grade
\* (null) when the body's grade was empty or blank text, and the body's grade as it
\* is otherwise; no stored student has an empty or blank text as grade.
C28_BlankGradeStoredAbsent ==
    /\ (call["api"].fn \in {"create", "update"} /\ call["api"].pc = "returned")
       => \A s \in call["api"].rows :
             s.grade = (IF Absent(call["api"].data.grade) THEN NULL
                        ELSE call["api"].data.grade)
    /\ \A s \in students : s.grade # NULL => Trim(s.grade) # EMPTY

\* C29: the student an import row has just created or updated, when the row's
\* grade is one the import recognizes (as it stands or without its quote marks),
\* is stored with a cycle that is active in the current academic year and whose
\* grade in that year, gradeFromCycle, is the stored grade.
C29_StoredGradeMatchesCycle ==
    (rec.pc = "await" /\ RowGrade(rec.studentData.grade) # 0 - 1)
    => \A s \in call["rec"].rows :
          /\ getCycleStatus(s.cycle, academicYear) = "active"
          /\ calculateGradeFromCycle(s.cycle, academicYear) = s.grade

\* C30: once the AuthProvider is mounted, loading becomes false unless the
\* component is unmounted, whether the config request, isAuthenticated and getUser
\* settle or not; authEnabled is true only when the race was won by a config with
\* enabled = true, not by the overall timer; and no state is set after the unmount.
C30_LoadingEnds ==
    /\ auth.mounted ~> (~auth.mounted \/ ~auth.loading)
    /\ [](auth.authEnabled => (auth.winner = "config" /\ auth.config = "enabled"))
    /\ [](~auth.lateSet)
    /\ [](auth.pc = "returned" /\ auth.mounted => ~auth.loading)

\* C30 witness: the body of the config response never arrived, the overall timer
\* won the race, and the mounted provider has stopped loading with authEnabled false
C30_Witness ==
    /\ auth.mounted
    /\ auth.fetch = "json"
    /\ auth.winner = "timeout"
    /\ ~auth.loading
    /\ ~auth.authEnabled

====
